---- MODULE Spec2Model ----
(***************************************************************************)
(* A model of the WebAssembly binding of the Bezier engine                 *)
(* (website/other/bezier-rs-demos/wasm/src/bezier.rs): the WasmBezier      *)
(* wrapper, its constructors, mutators, accessors and drawing operations.  *)
(*                                                                         *)
(* The binding is modelled from its source.  The engine it calls (the      *)
(* bezier_rs crate) and the drawing helpers (crate::svg_drawing) are not   *)
(* part of the source at hand; their operators below follow the            *)
(* specification's description of them.                                    *)
(*                                                                         *)
(* Numbers.  Control points are pairs <<x, y>> of integers.  A parameter   *)
(* value t is a fraction <<n, d>> (n/d); a computed point is a record      *)
(* [x, y, d] standing for (x/d, y/d), kept in lowest terms, with d = 0     *)
(* standing for a not-a-number point (0/0).  Floating-point rounding is    *)
(* not modelled.                                                           *)
(*                                                                         *)
(* Strings.  A String is a sequence of tokens; format!("{a}{b}") is the    *)
(* concatenation a \o b.                                                   *)
(***************************************************************************)
EXTENDS Integers, Sequences, FiniteSets, TLC

VARIABLES
    curves,     \* the WasmBezier values the host holds: slot -> Bezier or NoCurve
    lastCall,   \* the last call of the binding: operation, receiver, arguments, outcome
    run,        \* the engine's iterative operation in progress (subdivision, refinement)
    changes     \* how many calls have changed the curves so far

vars == <<curves, lastCall, run, changes>>

(***************************************************************************)
(* Bounds of the model.                                                    *)
(***************************************************************************)
MaxCurves == 2      \* WasmBezier values alive at once
MaxChanges == 3     \* calls that construct or change a curve in one run
MaxSteps == 2       \* largest steps argument of compute_lookup_table
MaxArrayLen == 5    \* longest point array a caller passes
MaxIterArg == 2     \* largest max_iterations argument of arcs
MaxPieces == 2      \* most arcs one curve is fitted with

\* a DVec2 with finite coordinates x/d, y/d; d = 0 is a not-a-number vector
DVec2(x, y) == [x |-> x, y |-> y, d |-> 1]

NoCurve == [kind |-> "none", pts |-> <<>>]
None == [kind |-> "None", pts |-> <<>>]

Kinds == {"Linear", "Quadratic", "Cubic"}

SCALE_UNIT_VECTOR_FACTOR == 50

\* the k-th point of the arrays callers pass, and the coordinates the mutators
\* are called with
InputPoint(k) == DVec2(k, k * k + 1)
MovedTo == {<<0, 0>>}

\* a caller's point array of length n
PointArray(n) == [k \in 1..n |-> InputPoint(k)]

\* parameter values n/d
Params == {<<0, 1>>, <<1, 2>>, <<1, 1>>}

(***************************************************************************)
(* Arithmetic on fractions.                                                *)
(***************************************************************************)
Abs(a) == IF a < 0 THEN -a ELSE a

RECURSIVE GCD(_, _)
GCD(a, b) == IF b = 0 THEN Abs(a) ELSE GCD(b, a % b)

\* (x/d, y/d) in lowest terms; d = 0 is the not-a-number vector
Frac(x, y, d) ==
    IF d = 0 THEN [x |-> 0, y |-> 0, d |-> 0]
    ELSE LET g == GCD(GCD(Abs(x), Abs(y)), Abs(d))
             s == IF d < 0 THEN -1 ELSE 1
         IN [x |-> s * (x \div g), y |-> s * (y \div g), d |-> s * (d \div g)]

(***************************************************************************)
(* The engine (bezier_rs::Bezier), after the specification.                *)
(***************************************************************************)
\* number of control points of a variant
PointCount(kind) ==
    CASE kind = "Linear" -> 2
      [] kind = "Quadratic" -> 3
      [] kind = "Cubic" -> 4
      [] OTHER -> 0

from_linear_dvec2(p0, p1) == [kind |-> "Linear", pts |-> <<p0, p1>>]

from_quadratic_dvec2(p0, p1, p2) == [kind |-> "Quadratic", pts |-> <<p0, p1, p2>>]

from_cubic_dvec2(p0, p1, p2, p3) == [kind |-> "Cubic", pts |-> <<p0, p1, p2, p3>>]

\* the control points in order
bezier_get_points(b) == b.pts

\* the position of the point a mutator replaces; 0 when the variant has no such point
MutatedIndex(op, kind) ==
    CASE op = "set_start" -> 1
      [] op = "set_end" -> PointCount(kind)
      [] op = "set_handle_start" -> IF kind \in {"Quadratic", "Cubic"} THEN 2 ELSE 0
      [] op = "set_handle_end" -> IF kind = "Cubic" THEN 3 ELSE 0
      [] OTHER -> 0

\* Bezier::set_start, set_end, set_handle_start, set_handle_end: one point is
\* replaced in place; a variant without the point is a hard error and the
\* curve is left as it was
bezier_set_point(b, op, p) ==
    LET i == MutatedIndex(op, b.kind)
    IN IF i = 0
       THEN [ok |-> FALSE, bezier |-> b]
       ELSE [ok |-> TRUE, bezier |-> [b EXCEPT !.pts[i] = p]]

\* one round of linear interpolation at t = n/d between consecutive points:
\* a + (b - a) * t, on numerators; the denominator grows by d each round
LerpLevel(level, n, d) ==
    [i \in 1..(Len(level) - 1) |->
        [x |-> d * level[i].x + n * (level[i + 1].x - level[i].x),
         y |-> d * level[i].y + n * (level[i + 1].y - level[i].y),
         d |-> d * level[i].d]]

RECURSIVE DeCasteljau(_, _, _)
DeCasteljau(level, n, d) ==
    IF Len(level) = 1
    THEN Frac(level[1].x, level[1].y, level[1].d)
    ELSE DeCasteljau(LerpLevel(level, n, d), n, d)

\* Bezier::evaluate: de Casteljau's algorithm, degree rounds
bezier_evaluate(b, t) == DeCasteljau(b.pts, t[1], t[2])

RECURSIVE DeCasteljauLevels(_, _, _)
DeCasteljauLevels(level, n, d) ==
    LET shown == [i \in 1..Len(level) |-> Frac(level[i].x, level[i].y, level[i].d)]
    IN IF Len(level) = 1
       THEN <<shown>>
       ELSE <<shown>> \o DeCasteljauLevels(LerpLevel(level, n, d), n, d)

\* Bezier::de_casteljau_points: every level of the interpolation, outer to inner
bezier_de_casteljau_points(b, t) == DeCasteljauLevels(b.pts, t[1], t[2])

\* Bezier::compute_lookup_table: steps + 1 samples at i/steps; with steps = 0 the
\* single sample's parameter value is not determined by the specification (t0)
bezier_compute_lookup_table(b, steps, t0) ==
    IF steps = 0
    THEN <<bezier_evaluate(b, t0)>>
    ELSE [i \in 1..(steps + 1) |-> bezier_evaluate(b, <<i - 1, steps>>)]

\* Bezier::derivative: the hodograph, one degree lower; a linear curve has none
bezier_derivative(b) ==
    LET n == Len(b.pts) - 1
        diff(i) == [x |-> n * (b.pts[i + 1].x - b.pts[i].x),
                    y |-> n * (b.pts[i + 1].y - b.pts[i].y),
                    d |-> 1]
    IN CASE b.kind = "Linear" -> None
         [] b.kind = "Quadratic" -> from_linear_dvec2(diff(1), diff(2))
         [] b.kind = "Cubic" -> from_quadratic_dvec2(diff(1), diff(2), diff(3))

\* a point turned by k quarter turns about the origin
Turn(p, k) ==
    CASE k % 4 = 0 -> p
      [] k % 4 = 1 -> [x |-> -p.y, y |-> p.x, d |-> p.d]
      [] k % 4 = 2 -> [x |-> -p.x, y |-> -p.y, d |-> p.d]
      [] k % 4 = 3 -> [x |-> p.y, y |-> -p.x, d |-> p.d]

\* Bezier::rotate: a new curve, every control point rotated about the origin
bezier_rotate(b, k) == [kind |-> b.kind, pts |-> [i \in 1..Len(b.pts) |-> Turn(b.pts[i], k)]]

\* engine results whose numerics are outside this model (length, tangent,
\* curvature, extrema, ...): an opaque value naming the operation and its arguments
EngineValue(name, args) == [engine |-> name, args |-> args]

\* Bezier::to_svg: the curve's markup appended to a string, drawn with four attribute strings
bezier_to_svg(b, curve_attr, anchor_attr, handle_attr, handle_line_attr) ==
    <<[tag |-> "bezier", kind |-> b.kind, pts |-> b.pts,
       attrs |-> <<curve_attr, anchor_attr, handle_attr, handle_line_attr>>]>>

(***************************************************************************)
(* crate::svg_drawing: tags, attribute strings and drawing helpers.        *)
(***************************************************************************)
SVG_OPEN_TAG == [tag |-> "SVG_OPEN_TAG"]

SVG_CLOSE_TAG == [tag |-> "SVG_CLOSE_TAG"]

\* str.replace(from, to) on an attribute string
Replace(attr, from, to) == <<attr, from, to>>

draw_circle(x, y, radius, stroke, stroke_width, fill) ==
    <<[tag |-> "circle", cx |-> x, cy |-> y, r |-> radius, stroke |-> stroke]>>

draw_line(x1, y1, x2, y2, stroke, stroke_width) ==
    <<[tag |-> "line", from |-> <<x1, y1>>, to |-> <<x2, y2>>, stroke |-> stroke]>>

draw_text(text, x, y, fill) == <<[tag |-> "text", text |-> text, fill |-> fill]>>

(***************************************************************************)
(* The binding: helpers.                                                   *)
(***************************************************************************)
\* an f64 as n/d in lowest terms; <<0, 0>> is not-a-number
F64(n, d) ==
    IF d = 0 THEN <<0, 0>>
    ELSE LET g == GCD(Abs(n), Abs(d)) IN <<n \div g, d \div g>>

\* vec_to_point with the coordinates exchanged
vec_to_point_swapped(p) == [x |-> F64(p.y, p.d), y |-> F64(p.x, p.d)]

\* vec_to_point: a DVec2 as a Point {x, y}
vec_to_point(p) == [x |-> F64(p.x, p.d), y |-> F64(p.y, p.d)]

\* serde_json's rendering of an f64: a number, or null when it is not finite
JsonNumber(f) == IF f[2] = 0 THEN [json |-> "null"] ELSE [json |-> "number", n |-> f[1], d |-> f[2]]

\* a Point serialised: {"x": .., "y": ..}
JsonPoint(pt) == [x |-> JsonNumber(pt.x), y |-> JsonNumber(pt.y)]

\* to_js_value on a Point
to_js_value_point(pt) == [js |-> "json", data |-> JsonPoint(pt)]

\* to_js_value on a Vec<Point>: an array of the points' objects, in order
to_js_value_points(points) ==
    [js |-> "json", data |-> [i \in 1..Len(points) |-> JsonPoint(points[i])]]

\* to_js_value on a Vec<Vec<Point>>
to_js_value_levels(levels) ==
    [js |-> "json",
     data |-> [k \in 1..Len(levels) |->
                 [i \in 1..Len(levels[k]) |-> JsonPoint(levels[k][i])]]]

\* to_js_value on engine values this model keeps opaque
to_js_value_opaque(data) == [js |-> "json", data |-> data]

wrap_svg_tag(contents) == <<SVG_OPEN_TAG>> \o contents \o <<SVG_CLOSE_TAG>>

\* into_serde that takes the first N points of a longer array
into_serde_prefix(js_points, N) ==
    IF Len(js_points) >= N
    THEN [ok |-> TRUE, value |-> SubSeq(js_points, 1, N)]
    ELSE [ok |-> FALSE, value |-> <<>>]

\* js_points.into_serde::<[DVec2; N]>(): an array of exactly N points, or an error
into_serde(js_points, N) ==
    IF Len(js_points) = N
    THEN [ok |-> TRUE, value |-> js_points]
    ELSE [ok |-> FALSE, value |-> <<>>]

\* what a call of the binding comes to: a returned value, or a panic (the
\* unwrap of an error); engine lists the engine constructors the call reached
Returned(v, called) == [status |-> "ok", value |-> v, engine |-> called]

Panicked(called) == [status |-> "panic", value |-> <<>>, engine |-> called]

(***************************************************************************)
(* The engine's constructors through points, and its sub-curve results.    *)
(***************************************************************************)
\* Bezier::quadratic_through_points: the quadratic from p0 to p2 that passes
\* through p1 at t = n/d; its handle solves B(t) = p1
bezier_quadratic_through_points(p0, p1, p2, t) ==
    LET n == t[1]
        d == t[2]
        den == 2 * n * (d - n)
        hx == d * d * p1.x - (d - n) * (d - n) * p0.x - n * n * p2.x
        hy == d * d * p1.y - (d - n) * (d - n) * p0.y - n * n * p2.y
    IN from_quadratic_dvec2(p0, Frac(hx, hy, den), p2)

\* Bezier::cubic_through_points: a cubic from p0 to p2 through p1; its handles
\* are engine values outside this model
bezier_cubic_through_points(p0, p1, p2, t, midpoint_separation) ==
    from_cubic_dvec2(p0, EngineValue("handle_start", <<p1, t, midpoint_separation>>),
                     EngineValue("handle_end", <<p1, t, midpoint_separation>>), p2)

\* a curve the engine derives from b (a half of a split, a trimmed, reduced or
\* offset piece): same variant, control points outside this model
DerivedBezier(b, name, args) == [kind |-> b.kind, pts |-> <<EngineValue(name, args)>>]

(***************************************************************************)
(* The binding: constructors.                                              *)
(***************************************************************************)
new_linear(js_points) ==
    LET points == into_serde(js_points, 2)
    IN IF ~points.ok
       THEN Panicked(<<>>)
       ELSE Returned(from_linear_dvec2(points.value[1], points.value[2]),
                     <<"from_linear_dvec2">>)

\* new_quadratic that builds with the linear constructor
new_quadratic_as_linear(js_points) ==
    LET points == into_serde(js_points, 3)
    IN IF ~points.ok
       THEN Panicked(<<>>)
       ELSE Returned(from_linear_dvec2(points.value[1], points.value[2]),
                     <<"from_linear_dvec2">>)

new_quadratic(js_points) ==
    LET points == into_serde(js_points, 3)
    IN IF ~points.ok
       THEN Panicked(<<>>)
       ELSE Returned(from_quadratic_dvec2(points.value[1], points.value[2], points.value[3]),
                     <<"from_quadratic_dvec2">>)

new_cubic(js_points) ==
    LET points == into_serde(js_points, 4)
    IN IF ~points.ok
       THEN Panicked(<<>>)
       ELSE Returned(from_cubic_dvec2(points.value[1], points.value[2],
                                      points.value[3], points.value[4]),
                     <<"from_cubic_dvec2">>)

draw_bezier_through_points(bezier, through_point) ==
    LET bezier_string == bezier_to_svg(bezier, "CURVE_ATTRIBUTES", "ANCHOR_ATTRIBUTES",
                                       Replace("HANDLE_ATTRIBUTES", "GRAY", "RED"),
                                       Replace("HANDLE_LINE_ATTRIBUTES", "GRAY", "RED"))
        through_point_circle == <<[tag |-> "circle", cx |-> F64(through_point.x, through_point.d),
                                   cy |-> F64(through_point.y, through_point.d),
                                   r |-> "ANCHOR_ATTRIBUTES", stroke |-> "ANCHOR_ATTRIBUTES"]>>
    IN wrap_svg_tag(bezier_string \o through_point_circle)

quadratic_through_points(js_points, t) ==
    LET points == into_serde(js_points, 3)
    IN IF ~points.ok
       THEN Panicked(<<>>)
       ELSE Returned(draw_bezier_through_points(
                         bezier_quadratic_through_points(points.value[1], points.value[2],
                                                         points.value[3], t),
                         points.value[2]),
                     <<"quadratic_through_points">>)

cubic_through_points(js_points, t, midpoint_separation) ==
    LET points == into_serde(js_points, 3)
    IN IF ~points.ok
       THEN Panicked(<<>>)
       ELSE Returned(draw_bezier_through_points(
                         bezier_cubic_through_points(points.value[1], points.value[2],
                                                     points.value[3], t, midpoint_separation),
                         points.value[2]),
                     <<"cubic_through_points">>)

(***************************************************************************)
(* The binding: mutators and accessors (b is self.0).                      *)
(***************************************************************************)
\* each mutator hands DVec2::new(x, y) to the engine's mutator of the same name
set_start(b, x, y) == bezier_set_point(b, "set_start", DVec2(x, y))

\* set_end that calls the engine's set_start
set_end_as_start(b, x, y) == bezier_set_point(b, "set_start", DVec2(x, y))

set_end(b, x, y) == bezier_set_point(b, "set_end", DVec2(x, y))

set_handle_start(b, x, y) == bezier_set_point(b, "set_handle_start", DVec2(x, y))

set_handle_end(b, x, y) == bezier_set_point(b, "set_handle_end", DVec2(x, y))

\* get_points: each control point as a Point, in order, serialised
get_points(b) ==
    LET pts == bezier_get_points(b)
        points == [i \in 1..Len(pts) |-> vec_to_point(pts[i])]
    IN to_js_value_points(points)

get_bezier_path(b) ==
    bezier_to_svg(b, "CURVE_ATTRIBUTES", "ANCHOR_ATTRIBUTES", "HANDLE_ATTRIBUTES",
                  "HANDLE_LINE_ATTRIBUTES")

\* a curve drawn in one colour instead of black and gray
bezier_to_svg_in(b, colour) ==
    bezier_to_svg(b, Replace("CURVE_ATTRIBUTES", "BLACK", colour),
                  Replace("ANCHOR_ATTRIBUTES", "BLACK", colour),
                  Replace("HANDLE_ATTRIBUTES", "GRAY", colour),
                  Replace("HANDLE_LINE_ATTRIBUTES", "GRAY", colour))

to_svg(b) == wrap_svg_tag(get_bezier_path(b))

length(b) ==
    LET bezier == get_bezier_path(b)
    IN wrap_svg_tag(bezier \o draw_text(<<"Length: ", EngineValue("length", <<>>)>>,
                                        "TEXT_OFFSET_X", "TEXT_OFFSET_Y", "BLACK"))

evaluate_value(b, t) == to_js_value_point(vec_to_point(bezier_evaluate(b, t)))

evaluate(b, t) ==
    LET bezier == get_bezier_path(b)
        point == vec_to_point(bezier_evaluate(b, t))
    IN wrap_svg_tag(bezier \o draw_circle(point.x, point.y, 4, "RED", "1.5", "WHITE"))

\* the fold of the circles' strings into one string, in order
RECURSIVE FoldConcat(_, _)
FoldConcat(acc, items) ==
    IF items = <<>> THEN acc ELSE FoldConcat(acc \o Head(items), Tail(items))

\* the circles of a lookup table folded in front of the accumulator
LookupCirclesReversed(table_values) ==
    FoldConcat(<<>>, [i \in 1..Len(table_values) |->
                        LET j == Len(table_values) + 1 - i
                        IN draw_circle(table_values[j].x, table_values[j].y, 3, "RED", "1.5", "WHITE")])

\* one circle per sample of a lookup table, in order
LookupCircles(table_values) ==
    FoldConcat(<<>>, [i \in 1..Len(table_values) |->
                        draw_circle(table_values[i].x, table_values[i].y, 3, "RED", "1.5", "WHITE")])

compute_lookup_table(b, steps, t0) ==
    LET bezier == get_bezier_path(b)
        table == bezier_compute_lookup_table(b, steps, t0)
        table_values == [i \in 1..Len(table) |-> vec_to_point(table[i])]
        circles == LookupCircles(table_values)
    IN wrap_svg_tag(bezier \o circles)

derivative(b) ==
    LET bezier == get_bezier_path(b)
        deriv == bezier_derivative(b)
    IN IF deriv.kind = "None"
       THEN bezier
       ELSE wrap_svg_tag(bezier \o bezier_to_svg(deriv,
                Replace("CURVE_ATTRIBUTES", "BLACK", "RED"),
                Replace("ANCHOR_ATTRIBUTES", "BLACK", "RED"),
                Replace("HANDLE_ATTRIBUTES", "GRAY", "RED"),
                Replace("HANDLE_LINE_ATTRIBUTES", "GRAY", "RED")))

\* tangent and normal: the point on the curve, the far end of the scaled unit
\* vector, and the line between them
tangent(b, t) ==
    LET bezier == get_bezier_path(b)
        intersection_point == vec_to_point(bezier_evaluate(b, t))
        tangent_end == EngineValue("tangent_end", <<t, SCALE_UNIT_VECTOR_FACTOR>>)
    IN wrap_svg_tag(bezier
           \o draw_circle(intersection_point.x, intersection_point.y, 3, "RED", "1", "WHITE")
           \o draw_line(intersection_point.x, intersection_point.y, tangent_end, tangent_end, "RED", "1")
           \o draw_circle(tangent_end, tangent_end, 3, "RED", "1", "WHITE"))

normal(b, t) ==
    LET bezier == get_bezier_path(b)
        intersection_point == vec_to_point(bezier_evaluate(b, t))
        normal_end == EngineValue("normal_end", <<t, SCALE_UNIT_VECTOR_FACTOR>>)
    IN wrap_svg_tag(bezier
           \o draw_line(intersection_point.x, intersection_point.y, normal_end, normal_end, "RED", "1")
           \o draw_circle(intersection_point.x, intersection_point.y, 3, "RED", "1", "WHITE")
           \o draw_circle(normal_end, normal_end, 3, "RED", "1", "WHITE"))

curvature(b, t) ==
    LET bezier == get_bezier_path(b)
        radius == EngineValue("1/curvature", <<t>>)
        intersection_point == vec_to_point(bezier_evaluate(b, t))
        curvature_center == EngineValue("curvature_center", <<t>>)
    IN wrap_svg_tag(bezier
           \o draw_circle(curvature_center, curvature_center, radius, "RED", "1", "NONE")
           \o draw_line(intersection_point.x, intersection_point.y,
                        curvature_center, curvature_center, "RED", "1")
           \o draw_circle(intersection_point.x, intersection_point.y, 3, "RED", "1", "WHITE")
           \o draw_circle(curvature_center, curvature_center, 3, "RED", "1", "WHITE"))

split(b, t) ==
    LET original_bezier_svg ==
            bezier_to_svg(b, Replace("CURVE_ATTRIBUTES", "BLACK", "WHITE"),
                          Replace("ANCHOR_ATTRIBUTES", "BLACK", "WHITE"),
                          "HANDLE_ATTRIBUTES", "HANDLE_LINE_ATTRIBUTES")
        bezier_svg_1 == bezier_to_svg_in(DerivedBezier(b, "split[0]", <<t>>), "ORANGE")
        bezier_svg_2 == bezier_to_svg_in(DerivedBezier(b, "split[1]", <<t>>), "RED")
    IN wrap_svg_tag(original_bezier_svg \o bezier_svg_1 \o bezier_svg_2)

trim(b, t1, t2) ==
    LET trimmed_bezier_svg == bezier_to_svg_in(DerivedBezier(b, "trim", <<t1, t2>>), "RED")
    IN wrap_svg_tag(get_bezier_path(b) \o trimmed_bezier_svg)

project(b, x, y) ==
    LET projected_point == EngineValue("evaluate(project)", <<x, y>>)
        bezier == get_bezier_path(b)
    IN wrap_svg_tag(bezier \o draw_line(projected_point, projected_point, x, y, "RED", "1"))

\* n_x and n_y: how many X and Y extrema the engine reports
local_extrema(b, n_x, n_y) ==
    LET bezier == get_bezier_path(b)
        circles ==
            FoldConcat(<<>>,
                [i \in 1..(n_x + n_y) |->
                    LET point == EngineValue("evaluate(extremum)", <<i>>)
                    IN draw_circle(point, point, 3, IF i <= n_x THEN "RED" ELSE "GREEN",
                                   "1.5", "WHITE")])
    IN wrap_svg_tag(bezier \o circles
           \o draw_text("X extrema", "TEXT_OFFSET_X", "TEXT_OFFSET_Y - 20", "RED")
           \o draw_text("Y extrema", "TEXT_OFFSET_X", "TEXT_OFFSET_Y", "GREEN"))

bounding_box(b) ==
    LET bezier == get_bezier_path(b)
    IN wrap_svg_tag(bezier \o <<[tag |-> "rect", box |-> EngineValue("bounding_box", <<>>),
                                 stroke |-> "RED"]>>)

\* n: how many inflections the engine reports
inflections(b, n) ==
    LET bezier == get_bezier_path(b)
        circles ==
            FoldConcat(<<>>,
                [i \in 1..n |->
                    LET point == EngineValue("evaluate(inflection)", <<i>>)
                    IN draw_circle(point, point, 3, "RED", "1.5", "WHITE")])
    IN wrap_svg_tag(bezier \o circles)

\* de_casteljau_points that collects the levels innermost first
de_casteljau_points_reversed(b, t) ==
    LET levels == bezier_de_casteljau_points(b, t)
        points == [k \in 1..Len(levels) |->
                     [i \in 1..Len(levels[Len(levels) + 1 - k]) |->
                        vec_to_point(levels[Len(levels) + 1 - k][i])]]
    IN to_js_value_levels(points)

\* de_casteljau_points: every level mapped to Points, level by level, serialised
de_casteljau_points(b, t) ==
    LET levels == bezier_de_casteljau_points(b, t)
        points == [k \in 1..Len(levels) |->
                     [i \in 1..Len(levels[k]) |-> vec_to_point(levels[k][i])]]
    IN to_js_value_levels(points)

\* rotate: a new WasmBezier around the engine's rotated curve
rotate(b, angle) == bezier_rotate(b, angle)

\* the pieces of reduce and offset drawn after the original curve, piece idx in
\* the colour hsl(40 * idx, 100%, 50%); n: how many pieces the engine returns
DrawPieces(b, name, args, n) ==
    LET original_curve_svg == get_bezier_path(b)
        pieces == [i \in 1..n |->
                     bezier_to_svg(DerivedBezier(b, name, args \o <<i - 1>>),
                                   Replace("CURVE_ATTRIBUTES", "BLACK", <<"hsl", 40 * (i - 1)>>),
                                   "", "", "")]
    IN wrap_svg_tag(FoldConcat(original_curve_svg, pieces))

reduce(b, n) == DrawPieces(b, "reduce", <<>>, n)

offset(b, distance, n) == DrawPieces(b, "offset", <<distance>>, n)

(***************************************************************************)
(* The binding: operations that run the engine's iterative algorithms,     *)
(* each taken as one step.  The result's numbers are outside this model.   *)
(***************************************************************************)
\* intersect: the engine's intersections of self with curve, within error
intersect(b, curve, error) == EngineValue("intersections", <<curve.kind, error>>)

intersect_line_segment(b, js_points) ==
    LET points == into_serde(js_points, 2)
    IN IF ~points.ok
       THEN Panicked(<<>>)
       ELSE Returned(intersect(b, from_linear_dvec2(points.value[1], points.value[2]), "None"),
                     <<"from_linear_dvec2">>)

intersect_quadratic_segment(b, js_points, error) ==
    LET points == into_serde(js_points, 3)
    IN IF ~points.ok
       THEN Panicked(<<>>)
       ELSE Returned(intersect(b, from_quadratic_dvec2(points.value[1], points.value[2],
                                                       points.value[3]), error),
                     <<"from_quadratic_dvec2">>)

intersect_cubic_segment(b, js_points, error) ==
    LET points == into_serde(js_points, 4)
    IN IF ~points.ok
       THEN Panicked(<<>>)
       ELSE Returned(intersect(b, from_cubic_dvec2(points.value[1], points.value[2],
                                                   points.value[3], points.value[4]), error),
                     <<"from_cubic_dvec2">>)

intersect_self(b, error) == to_js_value_opaque(EngineValue("self_intersections", <<error>>))

convert_wasm_maximize_arcs(wasm_enum_value) ==
    CASE wasm_enum_value = "Automatic" -> "Automatic"
      [] wasm_enum_value = "On" -> "FavorLargerArcs"
      [] wasm_enum_value = "Off" -> "FavorCorrectness"

\* the ArcsOptions the binding builds from its arguments
ArcsOptions(error, max_iterations, maximize_arcs) ==
    [error |-> error, max_iterations |-> max_iterations,
     strategy |-> convert_wasm_maximize_arcs(maximize_arcs)]

arcs(b, error, max_iterations, maximize_arcs) ==
    to_js_value_opaque(EngineValue("arcs", <<ArcsOptions(error, max_iterations, maximize_arcs)>>))

(***************************************************************************)
(* The state: the curves the host holds, and the last call.                *)
(***************************************************************************)
Slots == 1..MaxCurves

Live == {s \in Slots : curves[s] # NoCurve}

HasFree == \E s \in Slots : curves[s] = NoCurve

\* the slot the next WasmBezier goes to
Free == CHOOSE s \in Slots : curves[s] = NoCurve /\ \A r \in Slots : r < s => curves[r] # NoCurve

Idle == [pc |-> "idle"]

NoCall == [op |-> "none", self |-> 0, args |-> <<>>, status |-> "ok", value |-> <<>>, engine |-> <<>>]

\* the binding is called from one thread, one call at a time: the host has
\* taken the last call's outcome and no engine operation is in progress
Ready == lastCall.op = "none" /\ run.pc = "idle"

Init ==
    /\ curves = [s \in Slots |-> NoCurve]
    /\ lastCall = NoCall
    /\ run = Idle
    /\ changes = 0

\* a constructor's call: on success the new value takes a free slot
Construct(op, n, r) ==
    /\ Ready
    /\ r.status = "ok" => HasFree /\ changes < MaxChanges
    /\ curves' = IF r.status = "ok" THEN [curves EXCEPT ![Free] = r.value] ELSE curves
    /\ changes' = IF r.status = "ok" THEN changes + 1 ELSE changes
    /\ lastCall' = [op |-> op, self |-> 0, args |-> <<n>>, status |-> r.status,
                    value |-> IF r.status = "ok" THEN <<Free>> ELSE <<>>,
                    engine |-> r.engine]
    /\ UNCHANGED run

NewLinear(n) ==
    /\ n \in Nat
    /\ Construct("new_linear", n, new_linear(PointArray(n)))

NewQuadratic(n) ==
    /\ n \in Nat
    /\ Construct("new_quadratic", n, new_quadratic(PointArray(n)))

NewCubic(n) ==
    /\ n \in Nat
    /\ Construct("new_cubic", n, new_cubic(PointArray(n)))

\* a call that returns a value and holds no &mut self
Call(op, self, args, r) ==
    /\ Ready
    /\ curves' = curves
    /\ changes' = changes
    /\ lastCall' = [op |-> op, self |-> self, args |-> args, status |-> r.status,
                    value |-> r.value, engine |-> r.engine]
    /\ UNCHANGED run

QuadraticThroughPoints(n, t) ==
    /\ n \in Nat
    /\ Call("quadratic_through_points", 0, <<n, t>>, quadratic_through_points(PointArray(n), t))

CubicThroughPoints(n, t, sep) ==
    /\ n \in Nat
    /\ Call("cubic_through_points", 0, <<n, t, sep>>, cubic_through_points(PointArray(n), t, sep))

\* a mutator's call on the curve in slot i (&mut self): r is what the engine's
\* mutator made of self.0
Mutate(i, op, x, y, r) ==
    /\ Ready
    /\ r.bezier # curves[i] => changes < MaxChanges
    /\ curves' = [curves EXCEPT ![i] = r.bezier]
    /\ changes' = IF r.bezier # curves[i] THEN changes + 1 ELSE changes
    /\ lastCall' = [op |-> op, self |-> i, args |-> <<x, y>>,
                    status |-> IF r.ok THEN "ok" ELSE "panic",
                    value |-> <<>>, engine |-> <<>>]
    /\ UNCHANGED run

SetStart(i, x, y) ==
    /\ i \in Live
    /\ Mutate(i, "set_start", x, y, set_start(curves[i], x, y))

SetEnd(i, x, y) ==
    /\ i \in Live
    /\ Mutate(i, "set_end", x, y, set_end(curves[i], x, y))

SetHandleStart(i, x, y) ==
    /\ i \in Live
    /\ Mutate(i, "set_handle_start", x, y, set_handle_start(curves[i], x, y))

SetHandleEnd(i, x, y) ==
    /\ i \in Live
    /\ Mutate(i, "set_handle_end", x, y, set_handle_end(curves[i], x, y))

GetPoints(i) ==
    /\ i \in Live
    /\ Call("get_points", i, <<>>, Returned(get_points(curves[i]), <<>>))

\* rotate that turns self.0 itself and returns a copy of it
RotateInPlace(i, angle) ==
    /\ Ready
    /\ i \in Live
    /\ HasFree
    /\ changes < MaxChanges
    /\ changes' = changes + 1
    /\ curves' = [curves EXCEPT ![i] = rotate(curves[i], angle),
                                ![Free] = rotate(curves[i], angle)]
    /\ lastCall' = [op |-> "rotate", self |-> i, args |-> <<angle>>, status |-> "ok",
                    value |-> <<Free>>, engine |-> <<>>]
    /\ UNCHANGED run

Rotate(i, angle) ==
    /\ Ready
    /\ i \in Live
    /\ HasFree
    /\ changes < MaxChanges
    /\ changes' = changes + 1
    /\ curves' = [curves EXCEPT ![Free] = rotate(curves[i], angle)]
    /\ lastCall' = [op |-> "rotate", self |-> i, args |-> <<angle>>, status |-> "ok",
                    value |-> <<Free>>, engine |-> <<>>]
    /\ UNCHANGED run

EvaluateValue(i, t) ==
    /\ i \in Live
    /\ Call("evaluate_value", i, <<t>>, Returned(evaluate_value(curves[i], t), <<>>))

Evaluate(i, t) ==
    /\ i \in Live
    /\ Call("evaluate", i, <<t>>, Returned(evaluate(curves[i], t), <<>>))

ComputeLookupTable(i, steps, t0) ==
    /\ i \in Live
    /\ Call("compute_lookup_table", i, <<steps>>,
            Returned(compute_lookup_table(curves[i], steps, t0), <<>>))

Derivative(i) ==
    /\ i \in Live
    /\ Call("derivative", i, <<>>, Returned(derivative(curves[i]), <<>>))

DeCasteljauPoints(i, t) ==
    /\ i \in Live
    /\ Call("de_casteljau_points", i, <<t>>, Returned(de_casteljau_points(curves[i], t), <<>>))

ToSvg(i) ==
    /\ i \in Live
    /\ Call("to_svg", i, <<>>, Returned(to_svg(curves[i]), <<>>))

Length(i) ==
    /\ i \in Live
    /\ Call("length", i, <<>>, Returned(length(curves[i]), <<>>))

Tangent(i, t) ==
    /\ i \in Live
    /\ Call("tangent", i, <<t>>, Returned(tangent(curves[i], t), <<>>))

Normal(i, t) ==
    /\ i \in Live
    /\ Call("normal", i, <<t>>, Returned(normal(curves[i], t), <<>>))

Curvature(i, t) ==
    /\ i \in Live
    /\ Call("curvature", i, <<t>>, Returned(curvature(curves[i], t), <<>>))

Split(i, t) ==
    /\ i \in Live
    /\ Call("split", i, <<t>>, Returned(split(curves[i], t), <<>>))

Trim(i, t1, t2) ==
    /\ i \in Live
    /\ Call("trim", i, <<t1, t2>>, Returned(trim(curves[i], t1, t2), <<>>))

Project(i, x, y) ==
    /\ i \in Live
    /\ Call("project", i, <<x, y>>, Returned(project(curves[i], x, y), <<>>))

LocalExtrema(i, n_x, n_y) ==
    /\ i \in Live
    /\ Call("local_extrema", i, <<>>, Returned(local_extrema(curves[i], n_x, n_y), <<>>))

BoundingBox(i) ==
    /\ i \in Live
    /\ Call("bounding_box", i, <<>>, Returned(bounding_box(curves[i]), <<>>))

Inflections(i, n) ==
    /\ i \in Live
    /\ Call("inflections", i, <<>>, Returned(inflections(curves[i], n), <<>>))

Reduce(i, n) ==
    /\ i \in Live
    /\ Call("reduce", i, <<>>, Returned(reduce(curves[i], n), <<>>))

Offset(i, distance, n) ==
    /\ i \in Live
    /\ Call("offset", i, <<distance>>, Returned(offset(curves[i], distance, n), <<>>))

IntersectLineSegment(i, n) ==
    /\ i \in Live
    /\ Call("intersect_line_segment", i, <<n>>, intersect_line_segment(curves[i], PointArray(n)))

IntersectQuadraticSegment(i, n, error) ==
    /\ i \in Live
    /\ Call("intersect_quadratic_segment", i, <<n, error>>,
            intersect_quadratic_segment(curves[i], PointArray(n), error))

IntersectCubicSegment(i, n, error) ==
    /\ i \in Live
    /\ Call("intersect_cubic_segment", i, <<n, error>>,
            intersect_cubic_segment(curves[i], PointArray(n), error))

IntersectSelf(i, error) ==
    /\ i \in Live
    /\ Call("intersect_self", i, <<error>>, Returned(intersect_self(curves[i], error), <<>>))

Arcs(i, error, max_iterations, maximize_arcs) ==
    /\ i \in Live
    /\ Call("arcs", i, <<error, max_iterations, maximize_arcs>>,
            Returned(arcs(curves[i], error, max_iterations, maximize_arcs), <<>>))

\* the host takes the outcome of the last call
HostResumes ==
    /\ lastCall.op # "none"
    /\ run.pc = "idle"
    /\ lastCall' = NoCall
    /\ UNCHANGED <<curves, run, changes>>

\* the inputs the calls are made with
ArrayLens == 0..MaxArrayLen
SegmentLens == 2..4
HalfTurn == {2}
Errors == {0, 1}
PieceCounts == 0..MaxPieces

Next ==
    \/ HostResumes
    \/ \E n \in ArrayLens : NewLinear(n) \/ NewQuadratic(n) \/ NewCubic(n)
    \/ \E n \in ArrayLens : QuadraticThroughPoints(n, <<1, 2>>) \/ CubicThroughPoints(n, <<1, 2>>, 1)
    \/ \E i \in Slots, p \in MovedTo :
          \/ SetStart(i, p[1], p[2])
          \/ SetEnd(i, p[1], p[2])
          \/ SetHandleStart(i, p[1], p[2])
          \/ SetHandleEnd(i, p[1], p[2])
    \/ \E i \in Slots : GetPoints(i) \/ Derivative(i) \/ ToSvg(i) \/ Length(i) \/ BoundingBox(i)
    \/ \E i \in Slots, angle \in HalfTurn : Rotate(i, angle)
    \/ \E i \in Slots, t \in Params : EvaluateValue(i, t) \/ Evaluate(i, t) \/ DeCasteljauPoints(i, t)
    \/ \E i \in Slots, steps \in 0..MaxSteps, t0 \in {<<0, 1>>, <<1, 1>>, <<0, 0>>} :
          ComputeLookupTable(i, steps, t0)
    \/ \E i \in Slots, t \in {<<1, 2>>} :
          Tangent(i, t) \/ Normal(i, t) \/ Curvature(i, t) \/ Split(i, t) \/ Trim(i, <<0, 1>>, t)
    \/ \E i \in Slots, p \in MovedTo : Project(i, p[1], p[2])
    \/ \E i \in Slots, n \in PieceCounts :
          LocalExtrema(i, n, n) \/ Inflections(i, n) \/ Reduce(i, n) \/ Offset(i, 1, n)
    \/ \E i \in Slots, n \in SegmentLens, error \in Errors :
          \/ IntersectLineSegment(i, n)
          \/ IntersectQuadraticSegment(i, n, error)
          \/ IntersectCubicSegment(i, n, error)
    \/ \E i \in Slots, error \in Errors, max_iterations \in 0..MaxIterArg :
          IntersectSelf(i, error) \/ Arcs(i, error, max_iterations, "Automatic")

Spec == Init /\ [][Next]_vars

(***************************************************************************)
(* The engine's iterative algorithms, step by step.                        *)
(*                                                                         *)
(* Subdivision (intersections, self_intersections): a stack of pairs of    *)
(* sub-curves, each at its depth.  A pair whose bounding boxes do not      *)
(* overlap is discarded; a pair that is small enough is recorded; a pair   *)
(* at depth max_iterations is recorded as it is; any other pair is split   *)
(* into its four combinations, one level deeper.                           *)
(*                                                                         *)
(* Refinement (arcs, project): for each piece, steps of refinement until   *)
(* the estimate is within the error or max_iterations steps are used up;   *)
(* the estimate reached is kept either way.                                *)
(*                                                                         *)
(* Whether boxes overlap, a pair is small or an estimate has converged is  *)
(* geometry outside this model: every answer is possible at every step.    *)
(***************************************************************************)
\* the depth at which the engine's subdivision stops
SubdivisionMaxIterations == 2

\* ProjectionOptions::default()
ProjectionOptionsDefault == [error |-> "default", max_iterations |-> 2]

\* a depth test that lets one more level through
SubdivisionStopsLate(d, max_iterations) == d > max_iterations

\* the engine's decision at a pair of sub-curves at depth d
SubdivisionStops(d, max_iterations) == d >= max_iterations

\* the engine's decision after iter refinement steps without convergence
RefinementStops(iter, max_iterations) == iter >= max_iterations

\* an outcome that turns exhaustion into a hard error
HardErrorWhenExhausted(found, exhausted) ==
    [hard_error |-> exhausted, found |-> found, exhausted |-> exhausted]

\* the outcome of an iterative operation that used up max_iterations: its
\* estimates so far, as a normal result
BestEstimate(found, exhausted) == [hard_error |-> FALSE, found |-> found, exhausted |-> exhausted]

StartSubdivision(op, self, args, max_iterations) ==
    [pc |-> "running", algorithm |-> "subdivision", op |-> op, self |-> self, args |-> args,
     max_iterations |-> max_iterations, stack |-> <<0>>, todo |-> 0, iter |-> 0,
     found |-> 0, exhausted |-> FALSE]

StartRefinement(op, self, args, max_iterations, pieces) ==
    [pc |-> "running", algorithm |-> "refinement", op |-> op, self |-> self, args |-> args,
     max_iterations |-> max_iterations, stack |-> <<>>, todo |-> pieces, iter |-> 0,
     found |-> 0, exhausted |-> FALSE]

\* a call whose point array the binding rejects ends there; any other enters the engine
Enter(op, i, args, r, task) ==
    /\ Ready
    /\ IF r.status = "panic"
       THEN /\ lastCall' = [op |-> op, self |-> i, args |-> args, status |-> "panic",
                            value |-> <<>>, engine |-> r.engine]
            /\ run' = run
       ELSE /\ lastCall' = lastCall
            /\ run' = task
    /\ UNCHANGED <<curves, changes>>

BeginIntersectLineSegment(i, n) ==
    /\ i \in Live
    /\ Enter("intersect_line_segment", i, <<n>>,
          intersect_line_segment(curves[i], PointArray(n)),
          StartSubdivision("intersect_line_segment", i, <<n>>, SubdivisionMaxIterations))

BeginIntersectQuadraticSegment(i, n, error) ==
    /\ i \in Live
    /\ Enter("intersect_quadratic_segment", i, <<n, error>>,
          intersect_quadratic_segment(curves[i], PointArray(n), error),
          StartSubdivision("intersect_quadratic_segment", i, <<n, error>>,
                           SubdivisionMaxIterations))

BeginIntersectCubicSegment(i, n, error) ==
    /\ i \in Live
    /\ Enter("intersect_cubic_segment", i, <<n, error>>,
          intersect_cubic_segment(curves[i], PointArray(n), error),
          StartSubdivision("intersect_cubic_segment", i, <<n, error>>,
                           SubdivisionMaxIterations))

BeginIntersectSelf(i, error) ==
    /\ i \in Live
    /\ Enter("intersect_self", i, <<error>>, Returned(<<>>, <<>>),
          StartSubdivision("intersect_self", i, <<error>>, SubdivisionMaxIterations))

BeginArcs(i, error, max_iterations, maximize_arcs, pieces) ==
    /\ i \in Live
    /\ Enter("arcs", i, <<error, max_iterations, maximize_arcs>>, Returned(<<>>, <<>>),
          StartRefinement("arcs", i, <<error, max_iterations, maximize_arcs>>,
                          ArcsOptions(error, max_iterations, maximize_arcs).max_iterations,
                          pieces))

BeginProject(i, x, y) ==
    /\ i \in Live
    /\ Enter("project", i, <<x, y>>, Returned(<<>>, <<>>),
          StartRefinement("project", i, <<x, y>>, ProjectionOptionsDefault.max_iterations, 1))

\* one pair of sub-curves is taken from the stack
SubdivideStep ==
    /\ run.pc = "running"
    /\ run.algorithm = "subdivision"
    /\ run.stack # <<>>
    /\ LET d == Head(run.stack)
           rest == Tail(run.stack)
       IN \E overlap \in BOOLEAN, small \in BOOLEAN :
            run' = IF ~overlap
                   THEN [run EXCEPT !.stack = rest]
                   ELSE IF small
                   THEN [run EXCEPT !.stack = rest, !.found = @ + 1]
                   ELSE IF SubdivisionStops(d, run.max_iterations)
                   THEN [run EXCEPT !.stack = rest, !.found = @ + 1, !.exhausted = TRUE]
                   ELSE [run EXCEPT !.stack = <<d + 1, d + 1, d + 1, d + 1>> \o rest]
    /\ UNCHANGED <<curves, lastCall, changes>>

\* one step of refinement of the current piece's estimate
RefineStep ==
    /\ run.pc = "running"
    /\ run.algorithm = "refinement"
    /\ run.todo > 0
    /\ \E converged \in BOOLEAN :
         run' = IF converged
                THEN [run EXCEPT !.todo = @ - 1, !.iter = 0, !.found = @ + 1]
                ELSE IF RefinementStops(run.iter, run.max_iterations)
                THEN [run EXCEPT !.todo = @ - 1, !.iter = 0, !.found = @ + 1,
                                 !.exhausted = TRUE]
                ELSE [run EXCEPT !.iter = @ + 1]
    /\ UNCHANGED <<curves, lastCall, changes>>

\* what the binding returns from the engine's result
Finished(op, b, args, outcome) ==
    IF outcome.hard_error
    THEN Panicked(<<>>)
    ELSE CASE op = "project" -> Returned(<<project(b, args[1], args[2]), outcome>>, <<>>)
           [] op = "arcs" -> Returned(<<arcs(b, args[1], args[2], args[3]), outcome>>, <<>>)
           [] op = "intersect_self" -> Returned(<<intersect_self(b, args[1]), outcome>>, <<>>)
           [] OTHER -> Returned(<<EngineValue("intersections", args), outcome>>, <<>>)

\* the engine is done: the call returns
Return ==
    /\ run.pc = "running"
    /\ run.stack = <<>>
    /\ run.todo = 0
    /\ LET r == Finished(run.op, curves[run.self], run.args,
                         BestEstimate(run.found, run.exhausted))
       IN lastCall' = [op |-> run.op, self |-> run.self, args |-> run.args,
                       status |-> r.status, value |-> r.value, engine |-> r.engine]
    /\ run' = Idle
    /\ UNCHANGED <<curves, changes>>

\* one curve of any variant is there from the start
InitRun ==
    /\ \E kind \in Kinds :
         curves = [s \in Slots |->
                     IF s = 1
                     THEN [kind |-> kind, pts |-> PointArray(PointCount(kind))]
                     ELSE NoCurve]
    /\ lastCall = NoCall
    /\ run = Idle
    /\ changes = 0

RunStep == SubdivideStep \/ RefineStep \/ Return

NextRun ==
    \/ HostResumes
    \/ \E i \in Slots, n \in SegmentLens, error \in Errors :
          \/ BeginIntersectLineSegment(i, n)
          \/ BeginIntersectQuadraticSegment(i, n, error)
          \/ BeginIntersectCubicSegment(i, n, error)
    \/ \E i \in Slots, error \in Errors : BeginIntersectSelf(i, error)
    \/ \E i \in Slots, error \in Errors, max_iterations \in 0..MaxIterArg, pieces \in 1..MaxPieces :
          BeginArcs(i, error, max_iterations, "Automatic", pieces)
    \/ \E i \in Slots, p \in MovedTo : BeginProject(i, p[1], p[2])
    \/ SubdivideStep
    \/ RefineStep
    \/ Return

SpecRun == InitRun /\ [][NextRun]_vars

(***************************************************************************)
(* Properties.                                                             *)
(***************************************************************************)
Mutators == {"set_start", "set_end", "set_handle_start", "set_handle_end"}

Constructors == {"new_linear", "new_quadratic", "new_cubic"}

ThroughPointsOps == {"quadratic_through_points", "cubic_through_points"}

\* a step in which the binding is called (the outcome is in lastCall')
IsCall == lastCall.op = "none" /\ lastCall'.op # "none"

\* a control point as get_points and evaluate_value show it
Shown(p) == [x |-> [json |-> "number", n |-> p.x, d |-> 1],
             y |-> [json |-> "number", n |-> p.y, d |-> 1]]

\* the number of points a variant is drawn with
CountOf(kind) == IF kind = "Linear" THEN 2 ELSE IF kind = "Quadratic" THEN 3 ELSE 4

\* the variant a constructor builds
KindOf(op) ==
    IF op = "new_linear" THEN "Linear" ELSE IF op = "new_quadratic" THEN "Quadratic" ELSE "Cubic"

C1_CountMatchesVariant ==
    /\ \A s \in Live :
         /\ curves[s].kind \in Kinds
         /\ Len(get_points(curves[s]).data) = CountOf(curves[s].kind)
    /\ (lastCall.op \in Constructors /\ lastCall.status = "ok")
         => curves[lastCall.value[1]].kind = KindOf(lastCall.op)

C1_VariantKept == \A s \in Slots : curves[s] # NoCurve => curves'[s].kind = curves[s].kind

\* C1: a curve built by new_linear, new_quadratic or new_cubic has the variant of
\* its constructor; no call changes the variant of an existing curve (mutators on
\* a variant without the point included); get_points returns 2, 3 or 4 points
\* for Linear, Quadratic, Cubic.
C1_VariantAndPointCount == [](C1_CountMatchesVariant) /\ [][C1_VariantKept]_vars

\* a quadratic curve, changed by a mutator before, on which set_handle_end was just called
C1_Witness ==
    /\ lastCall.op = "set_handle_end"
    /\ curves[lastCall.self].kind = "Quadratic"
    /\ \E k \in 1..3 : curves[lastCall.self].pts[k] = DVec2(0, 0)

\* the number of points a construction call needs
Needed(op) ==
    CASE op = "new_linear" -> 2
      [] op = "new_quadratic" -> 3
      [] op = "new_cubic" -> 4
      [] op \in ThroughPointsOps -> 3

\* C2: a construction call (new_linear, new_quadratic, new_cubic,
\* quadratic_through_points, cubic_through_points) whose point array has not
\* exactly the needed number of points fails before any engine constructor is
\* called, yields no value, and leaves every existing curve unchanged.
C2_WrongCountRejected ==
    [][(IsCall /\ lastCall'.op \in Constructors \cup ThroughPointsOps
               /\ lastCall'.args[1] # Needed(lastCall'.op))
         => /\ lastCall'.status = "panic"
            /\ lastCall'.engine = <<>>
            /\ lastCall'.value = <<>>
            /\ curves' = curves]_vars

\* new_cubic was called with five points while a curve exists
C2_Witness ==
    /\ lastCall.op = "new_cubic"
    /\ lastCall.args = <<5>>
    /\ lastCall.status = "panic"
    /\ Live # {}

\* C5: only the four mutators change control points, and only those of the curve
\* they are called on; every other operation leaves every existing curve
\* unchanged; rotate returns a new curve in a slot of its own.
C5_OnlyMutatorsChangeOwnCurve ==
    [][IsCall =>
         /\ lastCall'.op \notin Mutators
              => \A s \in Slots : curves[s] # NoCurve => curves'[s] = curves[s]
         /\ lastCall'.op \in Mutators
              => \A s \in Slots \ {lastCall'.self} : curves'[s] = curves[s]
         /\ lastCall'.op = "rotate"
              => /\ lastCall'.value[1] # lastCall'.self
                 /\ curves[lastCall'.value[1]] = NoCurve
                 /\ curves'[lastCall'.value[1]] # NoCurve]_vars

\* slot 2 holds a rotated copy of the curve in slot 1, and set_start was then
\* called on the original
C5_Witness ==
    /\ lastCall.op = "set_start"
    /\ lastCall.self = 1
    /\ lastCall.status = "ok"
    /\ curves[2] # NoCurve
    /\ curves[2].kind = curves[1].kind
    /\ curves[2].pts[1].x < 0
    /\ curves[1].pts[1] = DVec2(0, 0)

\* the position a mutator is to replace in a curve of n points: the first point,
\* the last point, the first handle, the last handle
TargetIndex(op, n) ==
    CASE op = "set_start" -> 1
      [] op = "set_end" -> n
      [] op = "set_handle_start" -> 2
      [] op = "set_handle_end" -> n - 1

\* C9: a mutator that returns has replaced exactly the point it names by (x, y),
\* as get_points shows, and left the other points and their order as they were;
\* a mutator that fails has changed nothing; set_start and set_end return on every
\* curve, set_handle_start on quadratic and cubic curves, set_handle_end on cubic ones.
C9_MutatorReplacesOnePoint ==
    [][(IsCall /\ lastCall'.op \in Mutators) =>
         LET op == lastCall'.op
             i == lastCall'.self
             before == get_points(curves[i]).data
             after == get_points(curves'[i]).data
             n == Len(before)
             k == TargetIndex(op, n)
             p == Shown(DVec2(lastCall'.args[1], lastCall'.args[2]))
         IN /\ Len(after) = n
            /\ lastCall'.status = "ok"
                 => /\ after[k] = p
                    /\ \A j \in (1..n) \ {k} : after[j] = before[j]
            /\ lastCall'.status # "ok" => after = before
            /\ (op \in {"set_start", "set_end"} \/ n = 4 \/ (n = 3 /\ op = "set_handle_start"))
                 => lastCall'.status = "ok"]_vars

\* set_handle_end has just replaced the last handle of a cubic curve
C9_Witness ==
    /\ lastCall.op = "set_handle_end"
    /\ lastCall.status = "ok"
    /\ curves[lastCall.self].kind = "Cubic"
    /\ get_points(curves[lastCall.self]).data[3] = Shown(DVec2(0, 0))
    /\ get_points(curves[lastCall.self]).data[4] # Shown(DVec2(0, 0))

CirclesOf(svg) == SubSeq(svg, 3, Len(svg) - 1)

\* circle c is drawn at the computed point q
DrawnAt(c, q) == c.tag = "circle" /\ c.cx = F64(q.x, q.d) /\ c.cy = F64(q.y, q.d)

\* the samples of compute_lookup_table(steps) as drawn: steps + 1 circles, the
\* i-th at evaluate(i/steps), the first at the start point, the last at the end point
LookupTableDrawn(b, steps, circles) ==
    /\ Len(circles) = steps + 1
    /\ \A i \in 0..steps : DrawnAt(circles[i + 1], bezier_evaluate(b, <<i, steps>>))
    /\ DrawnAt(circles[1], b.pts[1])
    /\ DrawnAt(circles[Len(circles)], b.pts[Len(b.pts)])

\* C7 as stated: for every steps value, zero included
C7_EveryStepsValue ==
    lastCall.op = "compute_lookup_table"
      => LookupTableDrawn(curves[lastCall.self], lastCall.args[1], CirclesOf(lastCall.value))

\* C7, amended: for every curve and every steps >= 1, compute_lookup_table(steps)
\* draws exactly steps + 1 circles, the i-th at evaluate(i/steps), the first at the
\* curve's start point and the last at its end point, in that order.
C7_StepsAtLeastOne ==
    (lastCall.op = "compute_lookup_table" /\ lastCall.args[1] >= 1)
      => LookupTableDrawn(curves[lastCall.self], lastCall.args[1], CirclesOf(lastCall.value))

\* a lookup table of two steps of a quadratic curve whose start point was moved
C7_Witness ==
    /\ lastCall.op = "compute_lookup_table"
    /\ lastCall.args[1] = 2
    /\ curves[lastCall.self].kind = "Quadratic"
    /\ curves[lastCall.self].pts[1] = DVec2(0, 0)
    /\ Len(CirclesOf(lastCall.value)) = 3

\* c = a + (b - a) * t on the fractions of one coordinate, t = tn/td
LerpOfNumbers(a, b, c, tn, td) ==
    /\ a.json = "number" /\ b.json = "number" /\ c.json = "number"
    /\ c.n * a.d * b.d * td = c.d * (a.n * b.d * td + (b.n * a.d - a.n * b.d) * tn)

LerpOfPoints(a, b, c, t) ==
    /\ LerpOfNumbers(a.x, b.x, c.x, t[1], t[2])
    /\ LerpOfNumbers(a.y, b.y, c.y, t[1], t[2])

\* C8: de_casteljau_points(t) returns levels, each one point shorter than the one
\* before, each point the interpolation at t of two consecutive points of the level
\* before, the last level being the single point evaluate(t); the binding returns
\* as many levels as the engine, in its order, each with its length.
C8_DeCasteljauLevels ==
    lastCall.op = "de_casteljau_points"
      => LET b == curves[lastCall.self]
             t == lastCall.args[1]
             levels == lastCall.value.data
             engine == bezier_de_casteljau_points(b, t)
         IN /\ Len(levels) >= 1
            /\ Len(levels[Len(levels)]) = 1
            /\ levels[Len(levels)][1] = evaluate_value(b, t).data
            /\ \A k \in 1..(Len(levels) - 1) :
                 /\ Len(levels[k + 1]) = Len(levels[k]) - 1
                 /\ \A i \in 1..Len(levels[k + 1]) :
                      LerpOfPoints(levels[k][i], levels[k][i + 1], levels[k + 1][i], t)
            /\ Len(levels) = Len(engine)
            /\ \A k \in 1..Len(levels) :
                 /\ Len(levels[k]) = Len(engine[k])
                 /\ \A i \in 1..Len(levels[k]) :
                      levels[k][i] = JsonPoint([x |-> F64(engine[k][i].x, engine[k][i].d),
                                                y |-> F64(engine[k][i].y, engine[k][i].d)])

\* the levels of a cubic curve at t = 1/2: four levels, the last a single point
C8_Witness ==
    /\ lastCall.op = "de_casteljau_points"
    /\ lastCall.args[1] = <<1, 2>>
    /\ curves[lastCall.self].kind = "Cubic"
    /\ Len(lastCall.value.data) = 4
    /\ Len(lastCall.value.data[1]) = 4
    /\ Len(lastCall.value.data[4]) = 1

StringOps ==
    {"to_svg", "length", "evaluate", "compute_lookup_table", "derivative", "tangent",
     "normal", "curvature", "split", "trim", "project", "local_extrema", "bounding_box",
     "inflections", "reduce", "offset", "quadratic_through_points", "cubic_through_points"}

\* C10: every drawing operation that returns a String returns one that starts with
\* SVG_OPEN_TAG and ends with SVG_CLOSE_TAG, derivative on a curve without a
\* derivative curve included.
C10_EveryDrawingWrapped ==
    (lastCall.op \in StringOps /\ lastCall.status = "ok")
      => /\ Len(lastCall.value) >= 2
         /\ lastCall.value[1].tag = SVG_OPEN_TAG.tag
         /\ lastCall.value[Len(lastCall.value)].tag = SVG_CLOSE_TAG.tag

IntersectOps == {"intersect_line_segment", "intersect_quadratic_segment", "intersect_cubic_segment"}

IterativeOps == IntersectOps \cup {"intersect_self", "arcs", "project"}

\* the nodes of a full tree of subdivisions of height k, four children each
RECURSIVE TreeSize(_)
TreeSize(k) == IF k <= 0 THEN 1 ELSE 4 * TreeSize(k - 1) + 1

RECURSIVE WorkOf(_, _)
WorkOf(stack, max_iterations) ==
    IF stack = <<>> THEN 0
    ELSE TreeSize(max_iterations - Head(stack)) + WorkOf(Tail(stack), max_iterations)

\* an upper bound of the steps an operation in progress has left
Rank(r) ==
    IF r.pc # "running" THEN 0
    ELSE 1 + WorkOf(r.stack, r.max_iterations) + r.todo * (r.max_iterations + 1) - r.iter

\* the max_iterations bound of the call in progress: the caller's argument for
\* arcs, the default options for project, the engine's depth bound for subdivision
BoundOf(r) ==
    CASE r.op = "arcs" -> r.args[2]
      [] r.op = "project" -> ProjectionOptionsDefault.max_iterations
      [] OTHER -> SubdivisionMaxIterations

C3_DepthBounded ==
    run.pc = "running"
      => /\ \A k \in 1..Len(run.stack) : run.stack[k] <= BoundOf(run)
         /\ run.iter <= BoundOf(run)

C3_NeverStuck == run.pc = "running" => ENABLED RunStep

C3_RankDecreases == run.pc = "running" => Rank(run') < Rank(run) /\ Rank(run') >= 0

SegmentPoints(op) ==
    CASE op = "intersect_line_segment" -> 2
      [] op = "intersect_quadratic_segment" -> 3
      [] op = "intersect_cubic_segment" -> 4

====
